---- MODULE Spec2Model ----
(***************************************************************************)
(* The count-min / count-mean sketch of streamingds with its top-k         *)
(* tracker (countminsketch.py), as a state machine.                        *)
(*                                                                         *)
(* Numbers.  delta and epsilon are floats in the source; here they are     *)
(* integers in thousandths (deltaMilli = 500 is delta = 0.5).  k is given   *)
(* in halves (kHalves = 3 is k = 1.5) so that a non-integer k exists.      *)
(* The estimates of a CountMeanSketch are the floats c - (n - c)/(width-1); *)
(* here every estimate is held multiplied by Scale(self) = width - 1 (1 for *)
(* a CountMinSketch), an exact integer.  The machine word of the source is *)
(* 64 bits (int_size); the model's word is int_size bits, sys_maxint,      *)
(* int_mask and random_odd_int follow from it as in the source.            *)
(* A row's hash function is held as the table key -> column that its       *)
(* multiplier gives by multiply_shift, over the keys of the run.           *)
(***************************************************************************)
EXTENDS Integers, Sequences, FiniteSets, TLC

\* ---------------------------------------------------------------- bounds
\* Width of the machine word, in bits (line 36 of the source gives 64).
int_size == 4
\* Number of update calls in one behaviour of Spec.
MaxUpdates == 3
\* Number of update calls in one behaviour of SpecReads.
MaxReadUpdates == 2
\* Number of add and remove calls in one behaviour of SpecBloom.
MaxBloomCalls == 4

\* Keys are Python ints: hash(i) = i, except hash(-1) = -2.  2 and -2 are
\* distinct keys with the same abs(hash(key)), so they collide in every row.
Keys == {1, 2, -2}
Increments == {-1, 0, 1}
Kinds == {"min", "mean"}
DeltasMilli == {-500, 0, 200, 500, 1000, 1500}
EpsilonsMilli == {0, 1000, 2000}
KHalves == {-2, 0, 2, 3, 4}
\* The keys the three-key scenario draws its keys a, b, c from
ScenarioKeys == {1, 2, 3, -3, 5, 6}
AllKeys == Keys \cup ScenarioKeys
\* The keys given to a CountingBloomFilter, the sizes of its counter array
\* and the numbers of hash values of a key
BloomKeys == {1, 2}
SliceCounts == {2, 3}
HashCounts == {1, 2}

\* ------------------------------------------------------ module constants
sys_maxint == 2^(int_size - 1) - 1
int_mask == 2^int_size - 1

Abs(x) == IF x < 0 THEN -x ELSE x
Min2(a, b) == IF a <= b THEN a ELSE b

\* hash(key) of a Python int
hash(key) == IF key = -1 THEN -2 ELSE key

\* Mutant of multiply_shift: the product is not masked to the word.
multiply_shift_unmasked(m, a, x) == (a * x) \div (2^(int_size - m))

\* multiply_shift = lambda m, a, x: ((a * x) & int_mask) >> (int_size - m)
multiply_shift(m, a, x) == ((a * x) % (int_mask + 1)) \div (2^(int_size - m))

\* random_odd_int = lambda: (int(random.getrandbits(int_size - 2))) << 1 | 1
\* : the set of values one call can return.
random_odd_int == {2 * r + 1 : r \in 0..(2^(int_size - 2) - 1)}

\* floor(1000 * e): math.e in thousandths
EMilli == 2718
\* floor(1000 * e^d) for d = 0..4
ExpMilli == <<1000, 2718, 7389, 20085, 54598>>

\* int_ceil(math.e / epsilon), epsilon = epsMilli / 1000 > 0.  e is
\* irrational, so ceil(2718.28.. / epsMilli) = floor(2718 / epsMilli) + 1.
width_of(epsMilli) == (EMilli \div epsMilli) + 1

\* int_ceil(math.log(1.0 / delta)), delta = deltaMilli / 1000 in (0, 1]: the
\* least d with e^d >= 1/delta.  (Exact for the deltas of DeltasMilli.)
depth_of(deltaMilli) ==
    CHOOSE d \in 0..4 :
        /\ deltaMilli * ExpMilli[d + 1] >= 1000 * 1000
        /\ \A c \in 0..(d - 1) : deltaMilli * ExpMilli[c + 1] < 1000 * 1000

\* int(math.ceil(log2(float(width)))): the least m with 2^m >= width
lg_width_of(w) ==
    CHOOSE m \in 0..12 : 2^m >= w /\ \A c \in 0..(m - 1) : 2^c < w

\* ------------------------------------------------------- lists and dicts
InList(x, s) == \E i \in 1..Len(s) : s[i] = x

\* list.remove(x): drops the first occurrence
list_remove(s, x) ==
    LET i == CHOOSE j \in 1..Len(s) : s[j] = x /\ \A c \in 1..(j - 1) : s[c] # x
    IN  [j \in 1..(Len(s) - 1) |-> IF j < i THEN s[j] ELSE s[j + 1]]

dict_del(d, x) == [y \in (DOMAIN d) \ {x} |-> d[y]]
dict_set(d, x, v) == (x :> v) @@ d

RECURSIVE insert_sorted(_, _)
insert_sorted(s, v) ==
    IF s = <<>> THEN <<v>>
    ELSE IF v <= Head(s) THEN <<v>> \o s
    ELSE <<Head(s)>> \o insert_sorted(Tail(s), v)

\* list.sort() of a list of numbers
RECURSIVE list_sort(_)
list_sort(s) == IF s = <<>> THEN <<>> ELSE insert_sorted(list_sort(Tail(s)), Head(s))

\* ----------------------------------------------------------- Heap
\* streamingds.heap.Heap, a min-heap over numbers; its contents are kept
\* as an ascending list.
heap_push(h, v) == insert_sorted(h, v)
heap_min(h) == h[1]
\* pushpop(v): insert v, then remove and return the minimum: <<min, heap>>
heap_pushpop(h, v) == <<Head(insert_sorted(h, v)), Tail(insert_sorted(h, v))>>
\* remove(v): removes one occurrence of v
heap_remove(h, v) == list_remove(h, v)

VARIABLES
    pc,             \* "new": not constructed; "ready"; "failed": __init__ raised
    args,           \* the constructor's arguments
    self,           \* the sketch object: its attributes
    err,            \* the exception the last call raised, or "none"
    op,             \* the last call
    ret,            \* what the last call returned
    trueCount,      \* per key, the sum of the increments applied to it
    lastEst,        \* per key, what get(key) gave at the end of its last update
    nonneg,         \* no increment so far was negative
    total,          \* the sum of the positive increments so far
    steps,          \* the number of update calls so far
    scenario,       \* the scripted run: its keys and the calls still to make
    fed,            \* <<est>>: what the last update passed to update_heap
    branch,         \* the branch of update_heap the last update took
    hashing,        \* a sketch seen through its hash family alone
    bloom           \* a CountingBloomFilter

sketch_vars == <<pc, args, self, err, op, ret, trueCount, lastEst, nonneg, total,
                 steps, scenario, fed, branch>>
vars == <<pc, args, self, err, op, ret, trueCount, lastEst, nonneg, total, steps,
          scenario, fed, branch, hashing, bloom>>

NoObject ==
    [kind |-> "none", k |-> 0, width |-> 0, depth |-> 0, lg_width |-> 0,
     count |-> <<>>, hash_functions |-> <<>>, heap |-> <<>>,
     top_est |-> <<>>, known_keys |-> <<>>, n |-> 0]

\* ------------------------------------------------------- construction
\* CountMinSketch.__init__, the three checks: which exception, if any.
\* k != int(k): int() truncates; kHalves is k in halves.
init_check(deltaMilli, epsMilli, kHalves) ==
    IF ~(0 <= deltaMilli /\ deltaMilli <= 1000) THEN "ValueError"
    ELSE IF ~(1 <= epsMilli /\ epsMilli <= 1000) THEN "ValueError"
    ELSE IF kHalves < 2 \/ kHalves % 2 # 0 THEN "ValueError"
    ELSE IF deltaMilli = 0 THEN "ZeroDivisionError"     \* 1.0 / delta, line 102
    ELSE "none"

\* The attributes __init__ sets (lines 100-106, 254); count is the matrix
\* the count property builds on first use; hash_functions holds, for the
\* multiplier hfs[i] of each row, the column multiply_shift gives each key
\* (ix = abs(hash(key)), lines 154 and 158).
new_object(kind, deltaMilli, epsMilli, kHalves, hfs, keys) ==
    LET w == width_of(epsMilli)
        d == depth_of(deltaMilli)
        lg == lg_width_of(w)
    IN  [kind |-> kind, k |-> kHalves \div 2, width |-> w, depth |-> d,
         lg_width |-> lg,
         count |-> [i \in 1..d |-> [j \in 0..(2^lg - 1) |-> 0]],
         hash_functions |->
             [i \in 1..d |-> [key \in keys |-> multiply_shift(lg, hfs[i], Abs(hash(key)))]],
         heap |-> <<>>, top_est |-> <<>>, known_keys |-> <<>>, n |-> 0]

\* ------------------------------------------------------------- hashing
\* j = multiply_shift(self.lg_width, hf, ix), ix = abs(hash(key)), hf the
\* multiplier of row i (rows are 1..depth here, 0..depth-1 in the source)
position(s, i, key) == s.hash_functions[i][key]

\* An estimate is held times Scale: see the head of the module.
Scale(s) == IF s.kind = "mean" THEN s.width - 1 ELSE 1

\* ----------------------------------------------------------------- get
\* CountMinSketch.get: r = sys.maxint; for each row r = min(r, count[i][j])
RECURSIVE get_loop(_, _, _, _)
get_loop(s, key, i, r) ==
    IF i > Len(s.hash_functions) THEN r
    ELSE get_loop(s, key, i + 1, Min2(r, s.count[i][position(s, i, key)]))

CountMinSketch_get(s, key) == [ret |-> get_loop(s, key, 1, sys_maxint), err |-> "none"]

\* median(values): the list sorted; odd length: the middle element; even
\* length: float(lower + upper) // 2.  values[-1] of an empty list raises
\* IndexError.  The values are scaled by S (so is the result).
median(values, S) ==
    LET sorted == list_sort(values)
        len == Len(values)
    IN  IF len % 2 = 1 THEN [ret |-> sorted[(len + 1) \div 2], err |-> "none"]
        ELSE IF len = 0 THEN [ret |-> 0, err |-> "IndexError"]
        ELSE [ret |-> ((sorted[len \div 2] + sorted[len \div 2 + 1]) \div (2 * S)) * S,
              err |-> "none"]

\* Mutant of row_estimator: the noise estimate is added (+ for -).
row_estimator_add(s, i, key) ==
    LET sketchCounter == s.count[i][position(s, i, key)]
    IN  sketchCounter * (s.width - 1) + (s.n - sketchCounter)

\* CountMeanSketch.get: e[i] = sketchCounter - (n - sketchCounter)/(width - 1),
\* times width - 1: sketchCounter * (width - 1) - (n - sketchCounter)
row_estimator(s, i, key) ==
    LET sketchCounter == s.count[i][position(s, i, key)]
    IN  sketchCounter * (s.width - 1) - (s.n - sketchCounter)

CountMeanSketch_get(s, key) ==
    median([i \in 1..Len(s.hash_functions) |-> row_estimator(s, i, key)], s.width - 1)

\* self.get(key): the method of the object's class
get(s, key) ==
    IF s.kind = "mean" THEN CountMeanSketch_get(s, key) ELSE CountMinSketch_get(s, key)

\* ---------------------------------------------------------- update_heap
\* Mutant of forget_key: the estimate of an emptied bucket stays in the heap.
forget_key_keep_heap(T, key) ==
    IF key \notin DOMAIN T.known_keys THEN T
    ELSE
      LET key_est == T.known_keys[key] IN
      IF key_est \notin DOMAIN T.top_est THEN [T EXCEPT !.err = "KeyError"]
      ELSE
        LET T1 ==
              IF ~InList(key, T.top_est[key_est]) THEN T
              ELSE IF Len(T.top_est[key_est]) > 1
                   THEN [T EXCEPT !.top_est[key_est] = list_remove(@, key)]
              ELSE [T EXCEPT !.top_est = dict_del(@, key_est)]
        IN  [T1 EXCEPT !.known_keys = dict_del(@, key)]

\* Lines 208-217: a known key leaves the bucket of its old estimate; an
\* emptied bucket is deleted and its estimate removed from the heap.
\* T is [heap, top_est, known_keys, err].
forget_key(T, key) ==
    IF key \notin DOMAIN T.known_keys THEN T
    ELSE
      LET key_est == T.known_keys[key] IN
      IF key_est \notin DOMAIN T.top_est THEN [T EXCEPT !.err = "KeyError"]
      ELSE
        LET T1 ==
              IF ~InList(key, T.top_est[key_est]) THEN T
              ELSE IF Len(T.top_est[key_est]) > 1
                   THEN [T EXCEPT !.top_est[key_est] = list_remove(@, key)]
              ELSE IF ~InList(key_est, T.heap)
                   THEN [T EXCEPT !.top_est = dict_del(@, key_est), !.err = "ValueError"]
              ELSE [T EXCEPT !.top_est = dict_del(@, key_est),
                             !.heap = heap_remove(@, key_est)]
        IN  IF T1.err # "none" THEN T1
            ELSE [T1 EXCEPT !.known_keys = dict_del(@, key)]

\* Mutant of evict_and_place: the keys of the evicted bucket stay in
\* known_keys.
evict_and_place_keep_keys(T, key, est) ==
    LET pp == heap_pushpop(T.heap, est)
    IN  [T EXCEPT !.heap = pp[2],
                  !.top_est = dict_set(dict_del(@, pp[1]), est, <<key>>),
                  !.known_keys = dict_set(@, key, est)]

\* Lines 229-235: pushpop, the evicted estimate's bucket and keys deleted.
\* del self.known_keys[k] raises KeyError for a k that is not (or no
\* longer) in known_keys; the keys before it are deleted by then.
evict_and_place(T, key, est) ==
    LET pp == heap_pushpop(T.heap, est)
        oest == pp[1]
        bucket == IF oest \in DOMAIN T.top_est THEN T.top_est[oest] ELSE <<>>
        bad == {i \in 1..Len(bucket) :
                   \/ bucket[i] \notin DOMAIN T.known_keys
                   \/ \E j \in 1..(i - 1) : bucket[j] = bucket[i]}
        gone(m) == {bucket[i] : i \in 1..m}
    IN  IF bad # {}
        THEN LET first == CHOOSE i \in bad : \A j \in bad : i <= j
             IN  [T EXCEPT !.heap = pp[2],
                           !.known_keys = [x \in (DOMAIN @) \ gone(first - 1) |-> @[x]],
                           !.err = "KeyError"]
        ELSE [T EXCEPT !.heap = pp[2],
                       !.top_est = dict_set(dict_del(@, oest), est, <<key>>),
                       !.known_keys =
                           dict_set([x \in (DOMAIN @) \ gone(Len(bucket)) |-> @[x]], key, est)]

\* Mutant of place_key: a key appended to an existing bucket is not
\* recorded in known_keys.
place_key_no_record(T, key, est, k) ==
    IF est \in DOMAIN T.top_est
    THEN [T EXCEPT !.top_est[est] = Append(@, key)]
    ELSE IF Cardinality(DOMAIN T.top_est) < k
    THEN [T EXCEPT !.heap = heap_push(@, est),
                   !.top_est = dict_set(@, est, <<key>>),
                   !.known_keys = dict_set(@, key, est)]
    ELSE evict_and_place(T, key, est)

\* Mutant of place_key: len(self.top_est) <= self.k for <.
place_key_off_by_one(T, key, est, k) ==
    IF est \in DOMAIN T.top_est
    THEN [T EXCEPT !.top_est[est] = Append(@, key),
                   !.known_keys = dict_set(@, key, est)]
    ELSE IF Cardinality(DOMAIN T.top_est) <= k
    THEN [T EXCEPT !.heap = heap_push(@, est),
                   !.top_est = dict_set(@, est, <<key>>),
                   !.known_keys = dict_set(@, key, est)]
    ELSE evict_and_place(T, key, est)

\* Lines 219-235: the key joins the bucket of est, a new bucket is pushed,
\* or the minimum is evicted for it.
place_key(T, key, est, k) ==
    IF est \in DOMAIN T.top_est
    THEN [T EXCEPT !.top_est[est] = Append(@, key),
                   !.known_keys = dict_set(@, key, est)]
    ELSE IF Cardinality(DOMAIN T.top_est) < k
    THEN [T EXCEPT !.heap = heap_push(@, est),
                   !.top_est = dict_set(@, est, <<key>>),
                   !.known_keys = dict_set(@, key, est)]
    ELSE evict_and_place(T, key, est)

\* Mutant of admits: est > self.heap.min() for >=.
admits_strict(T, est, k) == Len(T.heap) < k \/ est > heap_min(T.heap)

\* Mutant of admits: len(self.heap) <= self.k for <.
admits_le(T, est, k) == Len(T.heap) <= k \/ est >= heap_min(T.heap)

\* Line 207: len(self.heap) < self.k or est >= self.heap.min()
admits(T, est, k) == Len(T.heap) < k \/ est >= heap_min(T.heap)

update_heap(T, key, est, k) ==
    IF ~admits(T, est, k) THEN T
    ELSE LET T1 == forget_key(T, key)
         IN  IF T1.err # "none" THEN T1 ELSE place_key(T1, key, est, k)

\* The branch update_heap(key, est) takes: "noop" (line 207 false), "join"
\* (lines 221-222), "push" (225-227), "pushpop" (229-235); "error" when
\* lines 208-217 raise.
branch_of(T, key, est, k) ==
    IF ~admits(T, est, k) THEN "noop"
    ELSE LET T1 == forget_key(T, key)
         IN  IF T1.err # "none" THEN "error"
             ELSE IF est \in DOMAIN T1.top_est THEN "join"
             ELSE IF Cardinality(DOMAIN T1.top_est) < k THEN "push"
             ELSE "pushpop"

\* -------------------------------------------------------------- update
\* Mutant of increment_row: the counter is overwritten (= for +=).
increment_row_overwrite(s, i, key, increment) ==
    [s EXCEPT !.count[i][position(s, i, key)] = increment]

\* Mutant of increment_row: the increment is subtracted (-= for +=).
increment_row_subtract(s, i, key, increment) ==
    [s EXCEPT !.count[i][position(s, i, key)] = @ - increment]

\* Mutant of increment_row: the increment is added twice.
increment_row_twice(s, i, key, increment) ==
    [s EXCEPT !.count[i][position(s, i, key)] = @ + 2 * increment]

\* Lines 156-160: row i's counter of the key gets the increment
increment_row(s, i, key, increment) ==
    [s EXCEPT !.count[i][position(s, i, key)] = @ + increment]

RECURSIVE update_loop(_, _, _, _)
update_loop(s, key, increment, i) ==
    IF i > Len(s.hash_functions) THEN s
    ELSE update_loop(increment_row(s, i, key, increment), key, increment, i + 1)

\* The running minimum est of lines 155-160 (never read by the source)
RECURSIVE running_est(_, _, _, _)
running_est(s, key, i, est) ==
    IF i > Len(s.hash_functions) THEN est
    ELSE running_est(s, key, i + 1, Min2(est, s.count[i][position(s, i, key)]))

tracker(s) == [heap |-> s.heap, top_est |-> s.top_est,
               known_keys |-> s.known_keys, err |-> "none"]

\* Mutant of CountMinSketch_update: the tracker is given the estimate read
\* before the rows are incremented.
CountMinSketch_update_stale(s, key, increment) ==
    LET s1 == update_loop(s, key, increment, 1)
        g == get(s, key)
    IN  IF g.err # "none"
        THEN [self |-> s1, err |-> g.err, fed |-> <<>>, branch |-> "none"]
        ELSE LET T == update_heap(tracker(s1), key, g.ret, s1.k)
             IN  [self |-> [s1 EXCEPT !.heap = T.heap, !.top_est = T.top_est,
                                      !.known_keys = T.known_keys],
                  err |-> T.err, fed |-> <<g.ret>>,
                  branch |-> branch_of(tracker(s1), key, g.ret, s1.k)]

\* Mutant of CountMinSketch_update: the tracker is given the running
\* minimum est of the row loop, the call of self.get(key) dropped.
CountMinSketch_update_est(s, key, increment) ==
    LET s1 == update_loop(s, key, increment, 1)
        est == running_est(s1, key, 1, sys_maxint)
        T == update_heap(tracker(s1), key, est, s1.k)
    IN  [self |-> [s1 EXCEPT !.heap = T.heap, !.top_est = T.top_est,
                             !.known_keys = T.known_keys],
         err |-> T.err, fed |-> <<est>>,
         branch |-> branch_of(tracker(s1), key, est, s1.k)]

\* CountMinSketch.update: the rows, then self.update_heap(key, self.get(key)).
\* Returns the object, the exception, the estimate passed to update_heap
\* and the branch update_heap took.
CountMinSketch_update(s, key, increment) ==
    LET s1 == update_loop(s, key, increment, 1)
        g == get(s1, key)
    IN  IF g.err # "none"
        THEN [self |-> s1, err |-> g.err, fed |-> <<>>, branch |-> "none"]
        ELSE LET T == update_heap(tracker(s1), key, g.ret, s1.k)
             IN  [self |-> [s1 EXCEPT !.heap = T.heap, !.top_est = T.top_est,
                                      !.known_keys = T.known_keys],
                  err |-> T.err, fed |-> <<g.ret>>,
                  branch |-> branch_of(tracker(s1), key, g.ret, s1.k)]

\* CountMeanSketch.update: self.n += 1, then the base update
CountMeanSketch_update(s, key, increment) ==
    CountMinSketch_update([s EXCEPT !.n = @ + 1], key, increment)

update(s, key, increment) ==
    IF s.kind = "mean" THEN CountMeanSketch_update(s, key, increment)
    ELSE CountMinSketch_update(s, key, increment)

\* --------------------------------------------------------- get_ranking
\* vals = self.top_est.items(); vals.sort(): ascending by estimate
RECURSIVE sorted_items(_)
sorted_items(d) ==
    IF DOMAIN d = {} THEN <<>>
    ELSE LET m == CHOOSE e \in DOMAIN d : \A f \in DOMAIN d : e <= f
         IN  <<<<m, d[m]>>>> \o sorted_items(dict_del(d, m))

list_reverse(s) == [i \in 1..Len(s) |-> s[Len(s) + 1 - i]]

\* Mutant of get_ranking: vals.reverse() is left out.
get_ranking_ascending(s) ==
    LET vals == sorted_items(s.top_est)
    IN  [i \in 0..(Len(vals) - 1) |-> vals[i + 1]]

\* Mutant of get_ranking: the ranks start at 1.
get_ranking_from_one(s) ==
    LET vals == list_reverse(sorted_items(s.top_est))
    IN  [i \in 1..Len(vals) |-> vals[i]]

\* r = dict([(i, vals[i]) for i in range(len(vals))]) of the reversed list
get_ranking(s) ==
    LET vals == list_reverse(sorted_items(s.top_est))
    IN  [i \in 0..(Len(vals) - 1) |-> vals[i + 1]]

\* Mutant of after_get_ranking: the ranking is produced by draining the
\* tracker.
after_get_ranking_drain(s) == [s EXCEPT !.heap = <<>>, !.top_est = <<>>]

\* The tracker after get_ranking(): items() is a copy, sorted and reversed
\* in place; top_est, heap and known_keys are not touched.
after_get_ranking(s) == s

\* The object after get(key): count is only read
after_get(s, key) == s

\* ------------------------------------------------------------- actions
NoScenario == [a |-> 0, b |-> 0, c |-> 0, script |-> <<>>]
NoCall == [name |-> "none", key |-> 0, increment |-> 0]

NoHashing ==
    [lg_width |-> 0, depth |-> 0, has |-> FALSE, _hash_functions |-> <<>>,
     row |-> 0, ix |-> 0, j |-> 0]
NoBloom ==
    [slices |-> 0, hash_values |-> <<>>, filter |-> <<>>, before |-> <<>>,
     call |-> "none", key |-> 0, net |-> <<>>, matched |-> TRUE, calls |-> 0,
     result |-> FALSE]

\* No sketch constructed yet
Idle ==
    /\ pc = "new"
    /\ args = [kind |-> "none", deltaMilli |-> 0, epsMilli |-> 0, kHalves |-> 0]
    /\ self = NoObject
    /\ err = "none"
    /\ op = NoCall
    /\ ret = <<"none">>
    /\ trueCount = [key \in AllKeys |-> 0]
    /\ lastEst = [key \in AllKeys |-> 0]
    /\ nonneg = TRUE
    /\ total = 0
    /\ steps = 0
    /\ scenario = NoScenario
    /\ fed = <<>>
    /\ branch = "none"

Init == Idle /\ hashing = NoHashing /\ bloom = NoBloom

\* CountMinSketch(delta, epsilon, k) or CountMeanSketch(delta, epsilon, k).
\* The multipliers are drawn here (the source draws them on first use);
\* keys are the keys the run will use.
Construct(kind, deltaMilli, epsMilli, kHalves, keys) ==
    /\ pc = "new"
    /\ args' = [kind |-> kind, deltaMilli |-> deltaMilli, epsMilli |-> epsMilli,
                kHalves |-> kHalves]
    /\ op' = [NoCall EXCEPT !.name = "__init__"]
    /\ err' = init_check(deltaMilli, epsMilli, kHalves)
    /\ IF init_check(deltaMilli, epsMilli, kHalves) # "none"
       THEN /\ pc' = "failed"
            /\ self' = self
       ELSE /\ pc' = "ready"
            /\ \E hfs \in [1..depth_of(deltaMilli) -> random_odd_int] :
                   self' = new_object(kind, deltaMilli, epsMilli, kHalves, hfs, keys)
    /\ UNCHANGED <<ret, trueCount, lastEst, nonneg, total, steps, fed, branch>>
    /\ UNCHANGED <<hashing, bloom>>

\* update(key, increment).  Counters stay within the machine word: the sum
\* of the increments never passes sys.maxint.
Update(key, increment) ==
    /\ pc = "ready"
    /\ total + Abs(increment) <= sys_maxint
    /\ LET r == update(self, key, increment)
       IN  /\ self' = r.self
           /\ err' = r.err
           /\ fed' = r.fed
           /\ branch' = r.branch
           /\ lastEst' = IF get(r.self, key).err = "none"
                         THEN [lastEst EXCEPT ![key] = get(r.self, key).ret]
                         ELSE lastEst
    /\ op' = [name |-> "update", key |-> key, increment |-> increment]
    /\ ret' = <<"none">>
    /\ trueCount' = [trueCount EXCEPT ![key] = @ + increment]
    /\ nonneg' = (nonneg /\ increment >= 0)
    /\ total' = total + Abs(increment)
    /\ steps' = steps + 1
    /\ UNCHANGED <<pc, args, hashing, bloom>>

\* get(key)
Get(key) ==
    /\ pc = "ready"
    /\ self' = after_get(self, key)
    /\ err' = get(self, key).err
    /\ ret' = IF get(self, key).err = "none" THEN <<"get", get(self, key).ret>>
              ELSE <<"none">>
    /\ op' = [name |-> "get", key |-> key, increment |-> 0]
    /\ UNCHANGED <<pc, args, trueCount, lastEst, nonneg, total, steps, fed, branch>>
    /\ UNCHANGED <<hashing, bloom>>

\* get_ranking()
GetRanking ==
    /\ pc = "ready"
    /\ self' = after_get_ranking(self)
    /\ err' = "none"
    /\ ret' = <<"get_ranking", get_ranking(self)>>
    /\ op' = [name |-> "get_ranking", key |-> 0, increment |-> 0]
    /\ UNCHANGED <<pc, args, trueCount, lastEst, nonneg, total, steps, fed, branch>>
    /\ UNCHANGED <<hashing, bloom>>

\* Any constructor call
New ==
    \E kind \in Kinds, deltaMilli \in DeltasMilli, epsMilli \in EpsilonsMilli,
       kHalves \in KHalves :
           Construct(kind, deltaMilli, epsMilli, kHalves, Keys) /\ UNCHANGED scenario

\* Construction and updates
Next ==
    \/ New
    \/ \E key \in Keys, increment \in Increments :
              steps < MaxUpdates /\ Update(key, increment) /\ UNCHANGED scenario

Spec == Init /\ [][Next]_vars

\* Construction, updates and the two reads, in any order
ReadsNext ==
    \/ New
    \/ \E key \in Keys, increment \in Increments :
              steps < MaxReadUpdates /\ Update(key, increment) /\ UNCHANGED scenario
    \/ \E key \in Keys : Get(key) /\ UNCHANGED scenario
    \/ GetRanking /\ UNCHANGED scenario

SpecReads == Init /\ [][ReadsNext]_vars

\* ------------------------------------------------- the three-key scenario
\* A CountMinSketch with k = 2, then update(a) three times, update(b) once,
\* update(c) twice, for any three distinct keys and any multipliers.
ScenarioStart ==
    \E a \in ScenarioKeys, b \in ScenarioKeys, c \in ScenarioKeys :
        /\ a # b /\ a # c /\ b # c
        /\ \E deltaMilli \in {200, 500, 1000} :
               Construct("min", deltaMilli, 1000, 4, {a, b, c})
        /\ scenario' = [a |-> a, b |-> b, c |-> c, script |-> <<a, a, a, b, c, c>>]

ScenarioStep ==
    /\ scenario.script # <<>>
    /\ Update(Head(scenario.script), 1)
    /\ scenario' = [scenario EXCEPT !.script = Tail(@)]

ScenarioNext == ScenarioStart \/ ScenarioStep

SpecScenario == Init /\ [][ScenarioNext]_vars

\* -------------------------------------------------------- the hash family
\* abs(hash(key)) of any key: hash(key) is a machine word, -sys.maxint - 1
\* to sys.maxint
HashValues == 0..(sys_maxint + 1)

\* A sketch with lg_width and depth set by __init__ (lg_width is at most
\* the width of the word), before the first use of hash_functions.
HashInit ==
    /\ Idle
    /\ bloom = NoBloom
    /\ \E m \in 0..int_size, d \in {depth_of(500), depth_of(200)} :
           hashing = [NoHashing EXCEPT !.lg_width = m, !.depth = d]

\* The hash_functions property (lines 121-129): the values it can return.
\* The multipliers are drawn at the first use and kept.
hash_functions(h) ==
    IF h.has THEN {h._hash_functions}
    ELSE [1..h.depth -> random_odd_int]

\* The columns of a row of the count property (lines 117-118)
Columns(lg_width) == 0..(2^lg_width - 1)

\* Lines 156-158 (and 186-188, 283-285) for row i and ix = abs(hash(key)):
\* hf = self.hash_functions[i]; j = multiply_shift(self.lg_width, hf, ix)
PositionFor(i, ix) ==
    /\ \E hfs \in hash_functions(hashing) :
           hashing' = [hashing EXCEPT !.has = TRUE, !._hash_functions = hfs,
                                      !.row = i, !.ix = ix,
                                      !.j = multiply_shift(hashing.lg_width, hfs[i], ix)]
    /\ UNCHANGED sketch_vars
    /\ UNCHANGED bloom

HashNext == \E i \in 1..hashing.depth, ix \in HashValues : PositionFor(i, ix)

SpecHash == HashInit /\ [][HashNext]_vars

\* ------------------------------------------------- CountingBloomFilter
\* BloomFilter.hash_values(key): the indices of the key, the same at every
\* call.
hash_values(b, key) == b.hash_values[key]

\* The filter property (lines 41-45): [0] * self.slices at the first use
new_filter(slices) == [x \in 0..(slices - 1) |-> 0]

\* for val in ...: self.filter[val] += d
RECURSIVE filter_loop(_, _, _)
filter_loop(filter, vals, d) ==
    IF vals = <<>> THEN filter
    ELSE filter_loop([filter EXCEPT ![Head(vals)] = @ + d], Tail(vals), d)

\* Mutant of CountingBloomFilter_add: the counter is set (= 1 for += 1), as
\* a bit of a plain Bloom filter is.
CountingBloomFilter_add_set(b, key) ==
    [b EXCEPT !.filter =
        [x \in DOMAIN @ |-> IF InList(x, hash_values(b, key)) THEN 1 ELSE @[x]]]

\* add (lines 28-31)
CountingBloomFilter_add(b, key) ==
    [b EXCEPT !.filter = filter_loop(@, hash_values(b, key), 1)]

\* remove (lines 33-35)
CountingBloomFilter_remove(b, key) ==
    [b EXCEPT !.filter = filter_loop(@, hash_values(b, key), -1)]

\* __contains__ (lines 37-39)
CountingBloomFilter_contains(b, key) ==
    \A i \in 1..Len(hash_values(b, key)) : b.filter[hash_values(b, key)[i]] >= 1

\* CountingBloomFilter(capacity, error_rate): slices counters and a hash
\* family of the base class, any.
BloomInit ==
    /\ Idle
    /\ hashing = NoHashing
    /\ \E n \in SliceCounts, h \in HashCounts :
         \E hv \in [BloomKeys -> [1..h -> 0..(n - 1)]] :
           bloom = [slices |-> n, hash_values |-> hv, filter |-> new_filter(n),
                    before |-> new_filter(n), call |-> "__init__", key |-> 0,
                    net |-> [key \in BloomKeys |-> 0], matched |-> TRUE,
                    calls |-> 0, result |-> FALSE]

\* add(key); before is the counter array the call found, net the adds less
\* the removes of each key.
BloomAdd(key) ==
    /\ bloom.calls < MaxBloomCalls
    /\ bloom' = [CountingBloomFilter_add(bloom, key) EXCEPT
                    !.before = bloom.filter, !.call = "add", !.key = key,
                    !.net[key] = @ + 1, !.calls = @ + 1]
    /\ UNCHANGED sketch_vars
    /\ UNCHANGED hashing

\* remove(key); matched: every remove so far had an add of its key still
\* to undo.
BloomRemove(key) ==
    /\ bloom.calls < MaxBloomCalls
    /\ bloom' = [CountingBloomFilter_remove(bloom, key) EXCEPT
                    !.before = bloom.filter, !.call = "remove", !.key = key,
                    !.net[key] = @ - 1, !.calls = @ + 1,
                    !.matched = @ /\ bloom.net[key] > 0]
    /\ UNCHANGED sketch_vars
    /\ UNCHANGED hashing

\* key in filter
BloomContains(key) ==
    /\ bloom' = [bloom EXCEPT !.before = bloom.filter, !.call = "contains",
                              !.key = key,
                              !.result = CountingBloomFilter_contains(bloom, key)]
    /\ UNCHANGED sketch_vars
    /\ UNCHANGED hashing

BloomNext ==
    \/ \E key \in BloomKeys : BloomAdd(key)
    \/ \E key \in BloomKeys : BloomRemove(key)
    \/ \E key \in BloomKeys : BloomContains(key)

SpecBloom == BloomInit /\ [][BloomNext]_vars

\* ---------------------------------------------------------------- claims
Ready == pc = "ready"
IsMin == Ready /\ self.kind = "min"
HeapValues == {self.heap[i] : i \in 1..Len(self.heap)}
Tracked == DOMAIN self.known_keys

\* C1  No-undercount: on a CountMinSketch whose increments were all
\* non-negative, get(key) is at least the sum of the increments applied to
\* key, for every key, whatever the hash positions are.
C1_NoUndercount ==
    (IsMin /\ nonneg) =>
        \A key \in Keys : CountMinSketch_get(self, key).ret >= trueCount[key]

\* C1 witness: two rows, a key counted twice and a key whose estimate is
\* above its true count (a collision in every row).
C1_Witness ==
    /\ IsMin /\ nonneg /\ self.depth = 2
    /\ \E key \in Keys : trueCount[key] >= 2
    /\ \E key \in Keys : CountMinSketch_get(self, key).ret > trueCount[key]

\* C2  Top-k invariant: the heap holds at most k values, no value twice,
\* and its values are exactly the estimates that have a bucket in top_est.
C2_TopKInvariant ==
    Ready =>
        /\ Len(self.heap) <= self.k
        /\ \A i, j \in 1..Len(self.heap) : i # j => self.heap[i] # self.heap[j]
        /\ HeapValues = DOMAIN self.top_est

\* C2 witness: k = 2 estimates are tracked and a key that was updated
\* before the last call has been evicted.
C2_Witness ==
    /\ Ready /\ self.k = 2 /\ Len(self.heap) = 2 /\ nonneg
    /\ op.name = "update"
    /\ \E key \in Keys : trueCount[key] > 0 /\ key \notin Tracked /\ op.key # key

\* The ranking get_ranking() would return now, and the keys of a rank
Ranking == get_ranking(self)
RankKeys(R, rank) == {R[rank][2][i] : i \in 1..Len(R[rank][2])}

\* C3 (as claimed)  Ranking consistency: for every rank of get_ranking()
\* and every key under it, get(key) now equals the rank's estimate.
\* Stated for a CountMinSketch with non-negative increments, a case of the
\* claim.
C3_Claim ==
    (IsMin /\ nonneg) =>
        \A rank \in DOMAIN Ranking : \A key \in RankKeys(Ranking, rank) :
            get(self, key).ret = Ranking[rank][1]

\* C3 (amended)  On a CountMinSketch with non-negative increments, the
\* estimate of a rank is, for every key under it, the value get(key) had at
\* the end of that key's last update, and get(key) now is at least it.
C3_RankingRecordsLastUpdate ==
    (IsMin /\ nonneg) =>
        \A rank \in DOMAIN Ranking : \A key \in RankKeys(Ranking, rank) :
            /\ Ranking[rank][1] = lastEst[key]
            /\ Ranking[rank][1] <= get(self, key).ret

\* C3 witness: a ranked key whose estimate has grown since its last update.
C3_Witness ==
    /\ IsMin /\ nonneg
    /\ \E rank \in DOMAIN Ranking : \E key \in RankKeys(Ranking, rank) :
           Ranking[rank][1] < get(self, key).ret

RECURSIVE BucketSizes(_)
BucketSizes(d) ==
    IF DOMAIN d = {} THEN 0
    ELSE LET e == CHOOSE x \in DOMAIN d : TRUE
         IN  Len(d[e]) + BucketSizes(dict_del(d, e))

\* C4 (as claimed)  The number of keys in known_keys never exceeds k.
\* Stated for non-negative increments, a case of the claim.
C4_Claim == (Ready /\ nonneg) => Cardinality(Tracked) <= self.k

\* C4 (amended)  top_est never holds more than k buckets (distinct
\* estimates); the keys of known_keys are as many as the keys over all
\* buckets, and may be more than k.
C4_AtMostKBuckets ==
    Ready =>
        /\ Cardinality(DOMAIN self.top_est) <= self.k
        /\ Cardinality(Tracked) = BucketSizes(self.top_est)

\* C4 witness: k buckets holding more than k keys.
C4_Witness ==
    /\ Ready /\ nonneg /\ Cardinality(DOMAIN self.top_est) = self.k
    /\ Cardinality(Tracked) > self.k

\* C5  get_ranking() returns ranks 0..n-1 for the n <= k tracked estimates,
\* strictly descending, rank 0 the largest, each rank with exactly the keys
\* of its estimate's bucket.
C5_Ranking ==
    (Ready /\ op.name = "get_ranking") =>
        LET R == ret[2]
            n == Cardinality(DOMAIN self.top_est)
        IN  /\ DOMAIN R = 0..(n - 1)
            /\ n <= self.k
            /\ \A i, j \in DOMAIN R : i < j => R[i][1] > R[j][1]
            /\ \A i \in DOMAIN R :
                   R[i][1] \in DOMAIN self.top_est /\ R[i][2] = self.top_est[R[i][1]]
            /\ n > 0 => \A e \in DOMAIN self.top_est : R[0][1] >= e

\* C5 witness: a returned ranking of two ranks.
C5_Witness ==
    /\ Ready /\ nonneg /\ op.name = "get_ranking"
    /\ DOMAIN ret[2] = {0, 1}

\* C6  get(key) and get_ranking() are read-only: a call of either leaves
\* the object (count, heap, top_est, known_keys) as it was, and
\* get_ranking() called again right after get_ranking() returns the same.
C6_ReadOnly ==
    [][op'.name \in {"get", "get_ranking"} =>
          /\ self' = self
          /\ (op.name = "get_ranking" /\ op'.name = "get_ranking") => ret' = ret]_vars

\* C6 witness: get_ranking() has returned a ranking of a tracker that holds
\* keys.
C6_Witness ==
    /\ Ready /\ nonneg /\ op.name = "get_ranking"
    /\ DOMAIN ret[2] # {} /\ DOMAIN self.top_est # {}

\* The constructor's contract as the spec words it: delta in (0, 1],
\* epsilon in [0.001, 1], k a positive integer.
SpecValid ==
    /\ 0 < args.deltaMilli /\ args.deltaMilli <= 1000
    /\ 1 <= args.epsMilli /\ args.epsMilli <= 1000
    /\ args.kHalves >= 2 /\ args.kHalves % 2 = 0

\* C7 (as claimed)  Construction fails with ValueError whenever delta is
\* outside (0, 1], epsilon outside [0.001, 1] or k no positive integer (no
\* other exception, also for delta = 0), and succeeds otherwise.
C7_Claim ==
    pc # "new" =>
        IF SpecValid THEN pc = "ready"
        ELSE pc = "failed" /\ err = "ValueError"

\* C8 (as claimed)  Once construction has succeeded (delta = 1 included),
\* no call of update, get or get_ranking raises.  Stated for non-negative
\* increments, a case of the claim.
C8_Claim == (Ready /\ nonneg) => err = "none"

\* C9 (as claimed)  With non-negative increments, what get(key) returns is
\* non-negative, for a CountMinSketch and for a CountMeanSketch.
C9_Claim ==
    (Ready /\ nonneg /\ op.name = "get" /\ err = "none") => ret[2] >= 0

\* C9 (amended)  With non-negative increments, what get(key) returns is
\* non-negative for a CountMinSketch; for a CountMeanSketch it may be
\* negative and is at least -n / (width - 1) rounded down.
C9_MinNonNegative ==
    (Ready /\ nonneg /\ op.name = "get" /\ err = "none") =>
        /\ self.kind = "min" => ret[2] >= 0
        /\ self.kind = "mean" =>
               ret[2] >= ((-self.n) \div (self.width - 1)) * (self.width - 1)

\* C9 witness: get of a never-updated key on a CountMinSketch that has
\* counted other keys returns 0.
C9_Witness ==
    /\ IsMin /\ nonneg /\ op.name = "get" /\ err = "none"
    /\ trueCount[op.key] = 0 /\ total > 0 /\ ret[2] = 0

\* The scripted run is over.
ScenarioDone == Ready /\ scenario.a # 0 /\ scenario.script = <<>>
\* Keys x and y have different hash positions in some row.
ApartInSomeRow(x, y) ==
    \E i \in 1..Len(self.hash_functions) : position(self, i, x) # position(self, i, y)
RankZeroHas(key) == 0 \in DOMAIN Ranking /\ key \in RankKeys(Ranking, 0)
ScenarioCounts ==
    /\ get(self, scenario.a).ret >= 3
    /\ get(self, scenario.b).ret >= 1
    /\ get(self, scenario.c).ret >= 2

\* C10 (as claimed)  k = 2; after update(a) three times, update(b) once and
\* update(c) twice: get(a) >= 3, get(b) >= 1, get(c) >= 2 and rank 0 of
\* get_ranking() contains a, for every assignment of hash positions.
C10_Claim == ScenarioDone => (ScenarioCounts /\ RankZeroHas(scenario.a))

\* C10 (amended)  The same run: get(a) >= 3, get(b) >= 1, get(c) >= 2 for
\* every assignment of hash positions; rank 0 contains a whenever b and c
\* each have a row in which their hash position is not a's.
C10_Scenario ==
    ScenarioDone =>
        /\ ScenarioCounts
        /\ (ApartInSomeRow(scenario.a, scenario.b) /\ ApartInSomeRow(scenario.a, scenario.c))
               => RankZeroHas(scenario.a)

\* C10 witness: the run is over, b shares a's counter in one row and not in
\* another, c is apart from a in some row, and rank 0 contains a.
C10_Witness ==
    /\ ScenarioDone /\ RankZeroHas(scenario.a)
    /\ ApartInSomeRow(scenario.a, scenario.b) /\ ApartInSomeRow(scenario.a, scenario.c)
    /\ \E i \in 1..Len(self.hash_functions) :
           position(self, i, scenario.a) = position(self, i, scenario.b)

\* The sum of f over the set S
RECURSIVE SumOver(_, _)
SumOver(S, f) ==
    IF S = {} THEN 0
    ELSE LET x == CHOOSE y \in S : TRUE IN f[x] + SumOver(S \ {x}, f)

IsMean == Ready /\ self.kind = "mean" /\ self.depth >= 1
\* |get(key) - trueCount(key)| of the two estimators over the counter matrix
\* of self, both times width - 1
MeanError(key) ==
    Abs(CountMeanSketch_get(self, key).ret - trueCount[key] * (self.width - 1))
MinError(key) ==
    Abs(CountMinSketch_get(self, key).ret - trueCount[key]) * (self.width - 1)
\* The largest counter of the key over the rows
MaxCounter(key) ==
    LET cs == {self.count[i][position(self, i, key)] : i \in 1..self.depth}
    IN  CHOOSE c \in cs : \A d \in cs : d <= c

\* The keys the stream has counted
StreamKeys == {key \in Keys : trueCount[key] > 0}

\* C11 (as claimed)  Over the same counter matrix and hash positions, the
\* sum over the keys of |CountMeanSketch.get(key) - trueCount(key)| is at
\* most the sum of |CountMinSketch.get(key) - trueCount(key)|.  Stated for
\* a stream of increments of 1 and the keys of the stream, a case of the
\* claim.
C11_Claim ==
    (IsMean /\ nonneg /\ total = self.n) =>
        SumOver(StreamKeys, [key \in Keys |-> MeanError(key)])
            <= SumOver(StreamKeys, [key \in Keys |-> MinError(key)])

\* C11 (amended)  On a CountMeanSketch with at least one row, non-negative
\* increments and no more added in total than update calls were made
\* (increments of 0 and 1): every row estimator of a key is at most the
\* row's counter of the key, and get(key) is at most the largest counter of
\* the key and at least trueCount(key) - (n - trueCount(key)) / (width - 1)
\* rounded down.
C11_MeanBounds ==
    (IsMean /\ nonneg /\ total <= self.n) =>
        \A key \in Keys :
            LET S == self.width - 1 IN
            /\ \A i \in 1..self.depth :
                   row_estimator(self, i, key) <= self.count[i][position(self, i, key)] * S
            /\ CountMeanSketch_get(self, key).ret <= MaxCounter(key) * S
            /\ CountMeanSketch_get(self, key).ret
                   >= ((trueCount[key] * S - (self.n - trueCount[key])) \div S) * S

\* C11 witness: two keys with no common counter in some row have been
\* counted: CountMinSketch.get is exact for a key and CountMeanSketch.get
\* is below its true count.
C11_Witness ==
    /\ IsMean /\ nonneg /\ total <= self.n
    /\ \E key \in Keys :
           /\ trueCount[key] > 0
           /\ MinError(key) = 0
           /\ CountMeanSketch_get(self, key).ret < trueCount[key] * (self.width - 1)

\* ------------------------------------------------ the tracker, per step
\* The estimate the last update passed to update_heap
Fed == fed[1]

\* heap, top_est and known_keys are left as they were
TrackerUnchanged ==
    /\ self'.heap = self.heap
    /\ self'.top_est = self.top_est
    /\ self'.known_keys = self.known_keys

\* C12 (as claimed)  update_heap(key, estimate) leaves heap, top_est and
\* known_keys unchanged whenever k or more keys are tracked and the
\* estimate is below the minimum tracked estimate.  Stated for a
\* CountMinSketch with non-negative increments, a case of the claim.
C12_Claim ==
    [][(op'.name = "update" /\ IsMin /\ nonneg' /\ fed' # <<>>
          /\ Cardinality(Tracked) >= self.k /\ self.heap # <<>>
          /\ Fed' < heap_min(self.heap))
        => TrackerUnchanged]_vars

\* C12 (amended)  update_heap(key, estimate) leaves heap, top_est and
\* known_keys unchanged whenever the heap holds k estimates (k distinct
\* tracked estimates, however many keys) and the estimate is below the
\* minimum tracked estimate, and only then takes no branch of lines
\* 208-235.
C12_Admission ==
    [][(op'.name = "update" /\ Ready /\ fed' # <<>>)
        => /\ (Len(self.heap) >= self.k /\ Fed' < heap_min(self.heap))
                  => (TrackerUnchanged /\ branch' = "noop")
           /\ branch' = "noop"
                  => (Len(self.heap) >= self.k /\ Fed' < heap_min(self.heap))]_vars

\* C12 witness: the last update's estimate was below the minimum of a full
\* heap and the call was a no-op: its key is not tracked.
C12_Witness ==
    /\ IsMin /\ nonneg /\ op.name = "update" /\ branch = "noop"
    /\ Len(self.heap) = self.k /\ Fed < heap_min(self.heap)
    /\ op.key \notin Tracked

\* update_heap as it stands after lines 208-217, seen from the state before
\* an update of key with the estimate est
AfterForget(key) == forget_key(tracker(self), key)

\* C13  Eviction: when update_heap reaches the pushpop branch, the value
\* pushpop returns is the minimum tracked estimate of before the call, it
\* is strictly below the new estimate, and after the call that estimate has
\* no bucket and none of the keys of its bucket is in known_keys.
C13_Eviction ==
    [][(op'.name = "update" /\ Ready /\ branch' = "pushpop")
        => LET T1 == AfterForget(op'.key)
               oest == heap_pushpop(T1.heap, Fed')[1]
           IN  /\ oest = heap_min(self.heap)
               /\ oest < Fed'
               /\ oest \in DOMAIN T1.top_est
               /\ oest \notin DOMAIN self'.top_est
               /\ oest \notin {self'.heap[i] : i \in 1..Len(self'.heap)}
               /\ \A i \in 1..Len(T1.top_est[oest]) :
                      T1.top_est[oest][i] \notin DOMAIN self'.known_keys]_vars

\* C13 witness: the last update took the pushpop branch and a key that had
\* been counted is not tracked.
C13_Witness ==
    /\ Ready /\ nonneg /\ op.name = "update" /\ branch = "pushpop"
    /\ op.key \in Tracked
    /\ \E key \in Keys : trueCount[key] > 0 /\ key \notin Tracked

\* C14  Map consistency: known_keys[key] = e exactly when key is in the
\* bucket top_est[e]; a key is in at most one bucket and at most once in
\* it; no bucket is empty; known_keys has as many keys as the buckets hold,
\* and there are as many buckets as heap entries.
C14_MapConsistency ==
    Ready =>
        /\ \A key \in Tracked :
               /\ self.known_keys[key] \in DOMAIN self.top_est
               /\ InList(key, self.top_est[self.known_keys[key]])
        /\ \A e \in DOMAIN self.top_est :
               /\ self.top_est[e] # <<>>
               /\ \A i \in 1..Len(self.top_est[e]) :
                      /\ self.top_est[e][i] \in Tracked
                      /\ self.known_keys[self.top_est[e][i]] = e
                      /\ \A j \in 1..Len(self.top_est[e]) :
                             i # j => self.top_est[e][i] # self.top_est[e][j]
        /\ Cardinality(Tracked) = BucketSizes(self.top_est)
        /\ Cardinality(DOMAIN self.top_est) = Len(self.heap)

\* C14 witness: two buckets, one of them with two keys.
C14_Witness ==
    /\ Ready /\ nonneg /\ Cardinality(DOMAIN self.top_est) = 2
    /\ \E e \in DOMAIN self.top_est : Len(self.top_est[e]) = 2

\* After an update of key on a CountMinSketch: key is tracked under
\* get(key), or it is not tracked, the heap holds k estimates and get(key)
\* is below the least of them.
TrackedOrTooLight(s, key) ==
    \/ /\ key \in DOMAIN s.known_keys
       /\ s.known_keys[key] = CountMinSketch_get(s, key).ret
    \/ /\ key \notin DOMAIN s.known_keys
       /\ Len(s.heap) = s.k
       /\ CountMinSketch_get(s, key).ret < heap_min(s.heap)

\* C15 (as claimed)  On a CountMinSketch with non-negative increments,
\* right after update(key, increment): key is tracked under get(key), or it
\* is not tracked, the heap holds k estimates and get(key) is below the
\* minimum; and every key tracked before the call is tracked after it.
C15_Claim ==
    [][(op'.name = "update" /\ IsMin /\ nonneg')
        => /\ TrackedOrTooLight(self', op'.key)
           /\ \A key \in Tracked : key \in DOMAIN self'.known_keys]_vars

\* C15 (amended)  The same, the last part for the updated key only: if key
\* was tracked before update(key, increment) it is tracked after it (another
\* key may leave the tracker, evicted by pushpop).
C15_UpdatedKeyTracked ==
    [][(op'.name = "update" /\ IsMin /\ nonneg')
        => /\ TrackedOrTooLight(self', op'.key)
           /\ op'.key \in Tracked => op'.key \in DOMAIN self'.known_keys]_vars

\* C15 witness: a key counted twice is tracked under get(key) = 2 or more,
\* next to a counted key that is not tracked.
C15_Witness ==
    /\ IsMin /\ nonneg /\ op.name = "update" /\ trueCount[op.key] >= 2
    /\ op.key \in Tracked /\ self.known_keys[op.key] = CountMinSketch_get(self, op.key).ret
    /\ \E key \in Keys : trueCount[key] > 0 /\ key \notin Tracked

\* The running minimum est of the row loop of the last update, in the
\* units of get
RunningEst == running_est(self, op.key, 1, sys_maxint) * Scale(self)

\* C16 (as claimed)  update passes update_heap the value get(key) returns
\* right after the update, and that value is the running minimum est of the
\* row loop.  Stated for increments of 1, a case of the claim.
C16_Claim ==
    (Ready /\ nonneg /\ total = steps /\ op.name = "update" /\ err = "none") =>
        /\ fed = <<get(self, op.key).ret>>
        /\ fed = <<RunningEst>>

\* C16 (amended)  update passes update_heap the value get(key) returns
\* right after the update; on a CountMinSketch that value is the running
\* minimum est of the row loop (on a CountMeanSketch, whose update runs the
\* same method, get is the median of the corrected rows and need not be).
C16_FedIsGet ==
    (Ready /\ op.name = "update" /\ err = "none") =>
        /\ fed = <<get(self, op.key).ret>>
        /\ self.kind = "min" => fed = <<RunningEst>>

\* C16 witness: on a CountMinSketch of two rows the counters of the updated
\* key differ and the tracker was given the smaller.
C16_Witness ==
    /\ IsMin /\ nonneg /\ op.name = "update" /\ self.depth = 2 /\ fed # <<>>
    /\ self.count[1][position(self, 1, op.key)] # self.count[2][position(self, 2, op.key)]
    /\ Fed >= 1

\* The sum of the counters of row i of the matrix m
RowSum(m, i) == SumOver(DOMAIN m[i], m[i])

\* C17  Counter matrix: update(key, increment) adds increment to the
\* counter of key in each row and leaves every other counter as it was;
\* the counters of each row add up to the sum of all increments; with
\* non-negative increments every counter is non-negative and none
\* decreases.
C17_CounterMatrix ==
    [][(op'.name = "update" /\ Ready)
        => /\ DOMAIN self'.count = DOMAIN self.count
           /\ \A i \in DOMAIN self.count :
                  /\ self'.count[i] =
                         [self.count[i] EXCEPT ![position(self, i, op'.key)] = @ + op'.increment]
                  /\ RowSum(self'.count, i) = SumOver(Keys, trueCount')
                  /\ nonneg' => \A j \in DOMAIN self.count[i] :
                         self'.count[i][j] >= 0 /\ self'.count[i][j] >= self.count[i][j]]_vars

\* C17 witness: a row with two counters above 0, one of them 2.
C17_Witness ==
    /\ Ready /\ nonneg /\ op.name = "update"
    /\ \E i \in DOMAIN self.count : \E j1, j2 \in DOMAIN self.count[i] :
           j1 # j2 /\ self.count[i][j1] = 2 /\ self.count[i][j2] >= 1

\* C18  Hash indexing: every multiplier of hash_functions is odd; for every
\* row, every non-negative key hash and every lg_width, the position
\* multiply_shift gives is in 0 .. 2^lg_width - 1, a column of the counter
\* matrix; and a call for the row and key hash of the call before it gives
\* the same position.
C18_HashIndex ==
    [][/\ \A i \in 1..Len(hashing'._hash_functions) :
              hashing'._hash_functions[i] % 2 = 1
       /\ hashing'.j \in Columns(hashing'.lg_width)
       /\ hashing'.j = ((hashing'._hash_functions[hashing'.row] * hashing'.ix)
                            % 2^int_size) \div 2^(int_size - hashing'.lg_width)
       /\ (hashing.row = hashing'.row /\ hashing.ix = hashing'.ix)
              => hashing.j = hashing'.j]_vars

\* C18 witness: the largest key hash under a multiplier above 1 whose
\* product exceeds the word, placed in the last column of two.
C18_Witness ==
    /\ hashing.has /\ hashing.lg_width = 1 /\ hashing.row = 2
    /\ hashing.ix = sys_maxint + 1
    /\ hashing._hash_functions[2] > 1
    /\ hashing._hash_functions[2] * hashing.ix > int_mask
    /\ hashing.j = 1

\* C19  CountingBloomFilter: while every remove(key) had an add(key) still
\* to undo, every key added more often than removed is reported as
\* contained and no counter is negative; and remove(key) right after
\* add(key) leaves the counter array as add(key) found it.
C19_CountingBloomFilter ==
    [][/\ bloom'.matched =>
              /\ \A key \in BloomKeys :
                     bloom'.net[key] > 0 => CountingBloomFilter_contains(bloom', key)
              /\ (bloom'.call = "contains" /\ bloom'.net[bloom'.key] > 0)
                     => bloom'.result
              /\ \A x \in DOMAIN bloom'.filter : bloom'.filter[x] >= 0
       /\ (bloom.call = "add" /\ bloom'.call = "remove" /\ bloom'.key = bloom.key)
              => bloom'.filter = bloom.before]_vars

\* C19 witness: the last call removed a key that had been added, and
\* another key, added once and sharing a counter with it, is still
\* contained.
C19_Witness ==
    /\ bloom.matched /\ bloom.call = "remove" /\ bloom.net[bloom.key] = 0
    /\ \E key \in BloomKeys :
           /\ key # bloom.key /\ bloom.net[key] = 1
           /\ CountingBloomFilter_contains(bloom, key)
           /\ \E i \in 1..Len(hash_values(bloom, key)) :
                  InList(hash_values(bloom, key)[i], hash_values(bloom, bloom.key))

====
